---- MODULE Spec2Model ----
(***************************************************************************)
(* Model of the strndup fallback of util/strext.h (libdicey samples).      *)
(*                                                                         *)
(* Memory is one flat byte-addressed space 0..SIZE_MAX.  Address 0 is the  *)
(* null pointer.  The caller's input array lives at str, the heap arena    *)
(* behind it.  strndup is one action that runs lines 24-34 as written:     *)
(* strnlen, malloc, the null check, memcpy, the terminator store and the   *)
(* return.  The caller may afterwards release a buffer it owns.            *)
(***************************************************************************)
EXTENDS Integers, FiniteSets, Sequences, TLC

\* ---- bounds of the model ----
\* width of size_t, scaled down
SizeBits == 3
\* largest input array (bytes, terminator included when there is one)
MaxIn == 3
\* bytes of heap arena
HeapSize == 3
\* byte values are 0..MaxByte
MaxByte == 2

SIZE_MAX == (2 ^ SizeBits) - 1
NULL == 0
Byte == 0..MaxByte
\* content of an address that belongs to no live object
Unmapped == -1
\* indeterminate content of freshly allocated storage: unequal to every byte
Uninit == -2
Addr == 0..SIZE_MAX
Min(a, b) == IF a < b THEN a ELSE b

\* ---- layout ----
\* The heap arena is never empty, so the input array never spans the whole
\* address space: an array holds fewer than SIZE_MAX bytes.
\* the input array starts at the first non-null address
str == 1
HeapBase == str + MaxIn
HeapEnd == Min(HeapBase + HeapSize - 1, SIZE_MAX)
HeapAddrs == HeapBase..HeapEnd

VARIABLES mem, heap, inSize, op, maxlen, len, size, mret, ret, reads, writes
vars == <<mem, heap, inSize, op, maxlen, len, size, mret, ret, reads, writes>>

Load(m, a) == IF a \in DOMAIN m THEN m[a] ELSE Unmapped
Store(m, a, b) == IF a \in DOMAIN m THEN [m EXCEPT ![a] = b] ELSE m
BlockAddrs(blk) == blk.base..(blk.base + blk.size - 1)
InputAddrs == str..(str + inSize - 1)

\* ---- the library primitives strndup is built on ----
RECURSIVE strnlenScan(_, _, _, _, _)
strnlenScan(m, s, n, i, rd) ==
    IF i = n THEN [len |-> i, reads |-> rd]
    ELSE IF Load(m, s + i) = 0 THEN [len |-> i, reads |-> rd \cup {i}]
    ELSE strnlenScan(m, s, n, i + 1, rd \cup {i})

\* faulty scan: tests the bound one byte too late
RECURSIVE strnlenOffByOne(_, _, _, _, _)
strnlenOffByOne(m, s, n, i, rd) ==
    IF i = n + 1 THEN [len |-> i, reads |-> rd]
    ELSE IF Load(m, s + i) = 0 THEN [len |-> i, reads |-> rd \cup {i}]
    ELSE strnlenOffByOne(m, s, n, i + 1, rd \cup {i})

\* faulty scan: strlen, the bound is ignored
RECURSIVE strnlenUnbounded(_, _, _, _, _)
strnlenUnbounded(m, s, n, i, rd) ==
    IF s + i > SIZE_MAX THEN [len |-> i, reads |-> rd]
    ELSE IF Load(m, s + i) = 0 THEN [len |-> i, reads |-> rd \cup {i}]
    ELSE strnlenUnbounded(m, s, n, i + 1, rd \cup {i})

strnlenPlusOne(m, s, n) == strnlenOffByOne(m, s, n, 0, {})

strlenOnly(m, s, n) == strnlenUnbounded(m, s, n, 0, {})

\* strnlen(str, maxlen): bytes before the first zero, at most maxlen
strnlen(m, s, n) == strnlenScan(m, s, n, 0, {})

\* footprint of a request: a zero-size request still yields a unique pointer
Footprint(b, n) == b..(b + (IF n = 0 THEN 1 ELSE n) - 1)

\* malloc(n): null, or the base of n bytes of the arena no live block uses
malloc(h, n) ==
    {NULL} \cup {b \in HeapAddrs :
                    /\ Footprint(b, n) \subseteq HeapAddrs
                    /\ \A blk \in h : Footprint(b, n) \cap Footprint(blk.base, blk.size) = {}}

\* the storage malloc hands out holds indeterminate bytes
Allocate(m, p, n) ==
    IF p = NULL THEN m
    ELSE [a \in DOMAIN m |-> IF a \in p..(p + n - 1) THEN Uninit ELSE m[a]]

\* faulty copy: source and destination exchanged
memcpySwapped(m, dst, src, n) ==
    [a \in DOMAIN m |-> IF a \in src..(src + n - 1) THEN Load(m, dst + (a - src)) ELSE m[a]]

\* memcpy(dst, src, n): n bytes from src to dst
memcpy(m, dst, src, n) ==
    [a \in DOMAIN m |-> IF a \in dst..(dst + n - 1) THEN Load(m, src + (a - dst)) ELSE m[a]]

\* ---- strndup, statement by statement ----
\* faulty size: no room for the terminator
AllocSizeNoTerm(l) == l % (SIZE_MAX + 1)

\* malloc(len + 1), in size_t arithmetic
AllocSize(l) == (l + 1) % (SIZE_MAX + 1)

\* faulty guard: the null check is missing
CheckedAlways(p) == TRUE

\* if (ret)
Checked(p) == p # NULL

\* faulty store: the terminator lands one byte too far
TermOffsetPast(l) == l + 1

\* ret[len] = '\0'
TermOffset(l) == l

\* faulty copy: the last byte is left out
CopyLenShort(l) == IF l = 0 THEN 0 ELSE l - 1

\* memcpy(ret, str, len)
CopyLen(l) == l

\* faulty body: an empty copy is reported as a failure
strndupBodyNullOnEmpty(m, p, s, l) ==
    IF Checked(p) /\ l # 0
    THEN [mem |-> Store(memcpy(m, p, s, CopyLen(l)), p + TermOffset(l), 0),
          reads |-> 0..(CopyLen(l) - 1),
          writes |-> (p..(p + CopyLen(l) - 1)) \cup {p + TermOffset(l)},
          ret |-> p]
    ELSE [mem |-> m, reads |-> {}, writes |-> {}, ret |-> NULL]

\* lines 28-33: the guarded copy and terminator store, then return ret
strndupBody(m, p, s, l) ==
    IF Checked(p)
    THEN [mem |-> Store(memcpy(m, p, s, CopyLen(l)), p + TermOffset(l), 0),
          reads |-> 0..(CopyLen(l) - 1),
          writes |-> (p..(p + CopyLen(l) - 1)) \cup {p + TermOffset(l)},
          ret |-> p]
    ELSE [mem |-> m, reads |-> {}, writes |-> {}, ret |-> p]

\* ---- the caller's input ----
Terminated == \E i \in 0..(inSize - 1) : mem[str + i] = 0
StrLen == CHOOSE i \in 0..(inSize - 1) :
              /\ mem[str + i] = 0
              /\ \A j \in 0..(i - 1) : mem[str + j] # 0
\* the bounds the caller passes: every bound up to one past the largest
\* array, and the largest value of size_t (the scan stops at the terminator
\* or at the end of the array, so larger bounds all act like SIZE_MAX)
MaxLens == (0..Min(MaxIn + 1, SIZE_MAX)) \cup {SIZE_MAX}
\* contract of the call: the scan must stay inside the array
CallAllowed(n) == Terminated \/ n <= inSize

Init ==
    /\ inSize \in 1..MaxIn
    /\ \E content \in [0..(inSize - 1) -> Byte] :
          mem = [a \in Addr |-> IF a \in str..(str + inSize - 1)
                                THEN content[a - str] ELSE Unmapped]
    /\ heap = {}
    /\ op = "init"
    /\ maxlen = 0 /\ len = 0 /\ size = 0 /\ mret = NULL /\ ret = NULL
    /\ reads = {} /\ writes = {}

strndup(n) ==
    /\ CallAllowed(n)
    /\ LET sc == strnlen(mem, str, n)
           sz == AllocSize(sc.len)
       IN \E p \in malloc(heap, sz) :
             LET b == strndupBody(Allocate(mem, p, sz), p, str, sc.len)
             IN /\ mem' = b.mem
                /\ heap' = IF p = NULL THEN heap
                           ELSE heap \cup {[base |-> p, size |-> sz]}
                /\ op' = "strndup"
                /\ maxlen' = n
                /\ len' = sc.len
                /\ size' = sz
                /\ mret' = p
                /\ ret' = b.ret
                /\ reads' = sc.reads \cup b.reads
                /\ writes' = b.writes
    /\ UNCHANGED inSize

\* the caller releases a buffer it owns
Release(blk) ==
    /\ blk \in heap
    /\ heap' = heap \ {blk}
    /\ mem' = [a \in DOMAIN mem |-> IF a \in Footprint(blk.base, blk.size)
                                    THEN Unmapped ELSE mem[a]]
    /\ op' = "free"
    /\ maxlen' = 0 /\ len' = 0 /\ size' = 0 /\ mret' = NULL /\ ret' = NULL
    /\ reads' = {} /\ writes' = {}
    /\ UNCHANGED inSize

Next ==
    \/ \E n \in MaxLens : strndup(n)
    \/ \E blk \in heap : Release(blk)

Spec == Init /\ [][Next]_vars

\* ---- what the caller can observe ----
\* the call just returned
Returned == op = "strndup"
\* the buffer the call returned, as a heap block
RetBlock == [base |-> ret, size |-> size]
\* length of the input as the contract defines it
EffLen == IF Terminated THEN Min(StrLen, maxlen) ELSE maxlen
\* position of the first zero byte of the result, -1 when it has none
ResultLen ==
    IF \E k \in 0..SIZE_MAX : Load(mem, ret + k) = 0
    THEN CHOOSE k \in 0..SIZE_MAX :
             /\ Load(mem, ret + k) = 0
             /\ \A j \in 0..(k - 1) : Load(mem, ret + j) # 0
    ELSE -1

\* C1: for a zero-terminated input and any bound, a call whose allocation
\* succeeded returns a buffer whose first min(len(S), B) bytes are those of
\* the input and whose byte at offset min(len(S), B) is zero.
C1_PrefixCopied ==
    (Returned /\ mret # NULL /\ Terminated) =>
        LET e == Min(StrLen, maxlen)
        IN /\ ret # NULL
           /\ \A i \in 0..(e - 1) : Load(mem, ret + i) = mem[str + i]
           /\ Load(mem, ret + e) = 0

\* a call truncated by the bound ("hello world" with bound 5)
C1_Witness ==
    /\ Returned /\ ret # NULL /\ Terminated
    /\ maxlen >= 1 /\ StrLen > maxlen
    /\ ResultLen = maxlen

\* C2: when the allocator returns null the call returns null and writes
\* nothing: memory and the set of live blocks are what they were.
C2_FailureWritesNothing ==
    [][(op' = "strndup" /\ mret' = NULL) =>
          /\ ret' = NULL
          /\ writes' = {}
          /\ mem' = mem
          /\ heap' = heap]_vars

\* a failed call on a non-empty input while another buffer is live
C2_Witness ==
    /\ Returned /\ mret = NULL /\ ret = NULL
    /\ len >= 1 /\ heap # {}

\* C3: the call returns null exactly when the allocator returned null.
C3_NullIffAllocFailed ==
    Returned => ((ret = NULL) <=> (mret = NULL))

\* a successful call that copies no byte still returns a buffer
C3_Witness ==
    /\ Returned /\ mret # NULL /\ ret # NULL
    /\ len = 0 /\ maxlen >= 1

\* C4: with bound 0 and a successful allocation the result is non-null, a
\* buffer of exactly one byte that holds the terminator; no input byte is
\* read or copied.
C4_ZeroBound ==
    (Returned /\ maxlen = 0 /\ mret # NULL) =>
        /\ ret # NULL
        /\ size = 1
        /\ RetBlock \in heap
        /\ mem[ret] = 0
        /\ writes = {ret}
        /\ reads = {}

\* bound 0 on an input that is not empty
C4_Witness ==
    /\ Returned /\ maxlen = 0 /\ ret # NULL
    /\ mem[str] # 0

\* C5: a non-null result is zero-terminated inside its buffer, its length
\* is at most the bound, and its content is a prefix of the input.
C5_BoundedPrefix ==
    (Returned /\ ret # NULL) =>
        /\ RetBlock \in heap
        /\ ResultLen \in 0..Min(maxlen, size - 1)
        /\ \A i \in 0..(ResultLen - 1) : Load(mem, ret + i) = mem[str + i]

\* a result as long as the bound allows, shorter than the input array
C5_Witness ==
    /\ Returned /\ ret # NULL
    /\ ResultLen = maxlen /\ maxlen = 2 /\ inSize > 2

\* C6: when the input is no longer than the bound and allocation succeeds,
\* the result is a full copy: same length, same bytes at offsets 0..len(S).
C6_FullCopy ==
    (Returned /\ mret # NULL /\ Terminated /\ StrLen <= maxlen) =>
        /\ ret # NULL
        /\ ResultLen = StrLen
        /\ \A i \in 0..StrLen : Load(mem, ret + i) = mem[str + i]

\* a short string under the largest bound ("hi" with bound 10)
C6_Witness ==
    /\ Returned /\ ret # NULL /\ Terminated
    /\ StrLen >= 1 /\ maxlen = SIZE_MAX /\ ResultLen = StrLen

\* C7: a returned buffer is a new block that overlaps neither the input nor
\* a block live before the call; no call or release changes the input or a
\* block that stays live, and a write of any byte at any offset of one live
\* block leaves the input and every other live block as they are.
C7_IndependentlyOwned ==
    /\ [][/\ (op' = "strndup" /\ ret' # NULL) =>
                 \E blk \in heap' \ heap :
                     /\ blk.base = ret'
                     /\ BlockAddrs(blk) \cap InputAddrs = {}
                     /\ \A o \in heap : BlockAddrs(blk) \cap BlockAddrs(o) = {}
          /\ \A a \in InputAddrs : mem'[a] = mem[a]
          /\ \A o \in heap \cap heap' : \A a \in BlockAddrs(o) : mem'[a] = mem[a]]_vars
    /\ [](\A blk \in heap : \A off \in 0..(blk.size - 1) : \A b \in Byte :
              LET written == Store(mem, blk.base + off, b)
              IN /\ \A a \in InputAddrs : written[a] = mem[a]
                 /\ \A o \in heap \ {blk} :
                        \A a \in BlockAddrs(o) : written[a] = mem[a])

\* a second buffer returned while an earlier one is still live
C7_Witness ==
    /\ Returned /\ ret # NULL
    /\ \E o \in heap : o.base # ret /\ o.base + o.size = ret

\* C8: a call leaves every input byte as it was; on success the heap gains
\* exactly the returned block and memory changes only inside it, on failure
\* neither the heap nor memory changes.
C8_Frame ==
    [][op' = "strndup" =>
          /\ inSize' = inSize
          /\ \A a \in InputAddrs : mem'[a] = mem[a]
          /\ ret' # NULL =>
                 /\ [base |-> ret', size |-> size'] \notin heap
                 /\ heap' = heap \cup {[base |-> ret', size |-> size']}
                 /\ \A a \in Addr \ (ret'..(ret' + size' - 1)) : mem'[a] = mem[a]
          /\ ret' = NULL => (heap' = heap /\ mem' = mem)]_vars

\* a successful call that copied at least one byte
C8_Witness ==
    /\ Returned /\ ret # NULL /\ len >= 1
    /\ Cardinality(writes) = len + 1

\* C9: scan and copy read only input offsets below the bound; when no zero
\* occurs in the first `bound` bytes the effective length is the bound and
\* the result is those bytes followed by a terminator.
C9_BoundedReads ==
    Returned =>
        /\ \A i \in reads : i < maxlen
        /\ (\A i \in 0..(maxlen - 1) : Load(mem, str + i) # 0) =>
               /\ len = maxlen
               /\ ret # NULL =>
                      /\ \A i \in 0..(maxlen - 1) : Load(mem, ret + i) = mem[str + i]
                      /\ Load(mem, ret + maxlen) = 0

\* an array without any terminator, duplicated up to its last byte
C9_Witness ==
    /\ Returned /\ ret # NULL
    /\ ~Terminated /\ maxlen = inSize /\ reads = 0..(maxlen - 1)

\* C10: for every bound up to SIZE_MAX the size requested is
\* min(length, bound) + 1 without wraparound, and the copied bytes and the
\* terminator all lie inside the allocated block.
C10_SizeNoWrap ==
    Returned =>
        /\ size = EffLen + 1
        /\ len = EffLen
        /\ ret # NULL =>
               /\ RetBlock \in heap
               /\ writes = ret..(ret + len)
               /\ writes \subseteq BlockAddrs(RetBlock)

\* the largest bound of the size type
C10_Witness ==
    /\ Returned /\ ret # NULL
    /\ maxlen = SIZE_MAX /\ len >= 1 /\ size = len + 1

TypeOK ==
    /\ mem \in [Addr -> Byte \cup {Unmapped, Uninit}]
    /\ op \in {"init", "strndup", "free"}
====
